---------------------------- MODULE Spec2Model ----------------------------
(* Model of the Oklch colour picker of src/src/lib.rs.                      *)
(*                                                                          *)
(* f32 values are Q8 fixed point numbers (an integer v stands for v/256);   *)
(* pixel coordinates are integers.  A lerp whose parameter is a fraction    *)
(* num/den is kept exact by returning the value multiplied by den.          *)
EXTENDS Integers, Sequences, FiniteSets, TLC

VARIABLES
    pc,        \* position of the slider call being modelled
    rect,      \* rectangle allocated to the slider
    mpos,      \* response.interact_pointer_pos(): None or <<x, y>>
    x_value,   \* *value (1-D) / *x_value (2-D)
    y_value,   \* *y_value (2-D)
    x_range,   \* range (1-D) / x_range (2-D), <<start, end>>
    y_range,   \* y_range (2-D)
    xi,        \* outer loop counter of color_slider_2d
    mesh,      \* the Mesh being built
    evals,     \* calls of color_at made by the slider call, in order
    color,     \* the caller's display colour, 4 bytes
    cache,     \* Cache<[u8; 4], PerceptualLCh> kept in ui memory
    popup,     \* TRUE iff memory.popup is this picker's popup_id
    oklch,     \* working colour of the last pass, on return
    seed,      \* working colour of the last pass, as looked up on entry
    changed,   \* response.changed() of the last pass
    input,     \* the events of the last pass
    passes,    \* number of passes made
    zeroKey,   \* display colour committed by the last pass that set chroma to 0
    zeroHue    \* hue the working colour carried in that pass

sliderVars == <<pc, rect, mpos, x_value, y_value, x_range, y_range, xi, mesh, evals>>
pickerVars == <<color, cache, popup, oklch, seed, changed, input, passes, zeroKey, zeroHue>>
vars == <<pc, rect, mpos, x_value, y_value, x_range, y_range, xi, mesh, evals,
          color, cache, popup, oklch, seed, changed, input, passes, zeroKey, zeroHue>>

\* Option::None; Some(v) is v itself for positions and <<v>> for cache lookups
None == << >>

\* value of a colour variable before the first pass
Unset == [l |-> 0, c |-> 0, h |-> 0, alpha |-> 0]

-----------------------------------------------------------------------------
(* Numbers *)

\* const N: u32 = 6 * 6
N == 36

\* 1.0 in Q8
One == 256

\* core::f32::consts::PI in Q8
PI == 804

\* ui.spacing_mut().slider_width = 256.0
SliderWidth == 256

\* rectangles of the slider specifications have corners in 0..MaxCoord
MaxCoord == 2

\* passes of one behaviour
MaxPasses == 2

\* entries the cache keeps
CacheCapacity == 1

-----------------------------------------------------------------------------
(* emath helpers used by the sliders *)

\* lerp(lo..=hi, num/den) = (1 - t) * lo + t * hi, multiplied by den
Lerp(lo, hi, num, den) == (den - num) * lo + num * hi

\* remap_clamp(x, a..=b, lo..=hi); a reversed source range is flipped together
\* with the target range
RECURSIVE remap_clamp(_, _, _, _, _)
remap_clamp(x, a, b, lo, hi) ==
    IF b < a THEN remap_clamp(x, b, a, hi, lo)
    ELSE IF x <= a THEN lo
    ELSE IF b <= x THEN hi
    ELSE Lerp(lo, hi, x - a, b - a) \div (b - a)

-----------------------------------------------------------------------------
(* Mesh *)

EmptyMesh == [vertices |-> << >>, indices |-> << >>]

\* mesh.colored_vertex(pos, color)
colored_vertex(m, pos, col) ==
    [m EXCEPT !.vertices = Append(@, [pos |-> pos, color |-> col])]

\* mesh.add_triangle(a, b, c)
add_triangle(m, a, b, c) ==
    [m EXCEPT !.indices = @ \o <<a, b, c>>]

NumTriangles(m) == Len(m.indices) \div 3

\* the three vertex indices of triangle k (1-based) of the mesh
Tri(m, k) == <<m.indices[3 * k - 2], m.indices[3 * k - 1], m.indices[3 * k]>>

\* position of the vertex with (0-based) index i
PosOf(m, i) == m.vertices[i + 1].pos

\* twice the signed area of the triangle p, q, r
Area2(p, q, r) ==
    (q[1] - p[1]) * (r[2] - p[2]) - (q[2] - p[2]) * (r[1] - p[1])

\* the appends of b made after those of a
Then(a, b) ==
    [mesh |-> [vertices |-> a.mesh.vertices \o b.mesh.vertices,
               indices |-> a.mesh.indices \o b.mesh.indices],
     evals |-> a.evals \o b.evals]

TriArea2(m, k) ==
    LET t == Tri(m, k) IN Area2(PosOf(m, t[1]), PosOf(m, t[2]), PosOf(m, t[3]))

-----------------------------------------------------------------------------
(* Slider inputs *)

\* rectangles of positive width and height; screen y grows downward, so
\* top < bottom
Rects ==
    {[left |-> l, right |-> r, top |-> t, bottom |-> b] :
        l \in 0..MaxCoord, r \in 0..MaxCoord, t \in 0..MaxCoord, b \in 0..MaxCoord}

PositiveRects == {r \in Rects : r.left < r.right /\ r.top < r.bottom}

\* pointer positions on, inside and outside such a rectangle: the two
\* diagonals of the square around all of them
Pointers ==
    {<<k, k>> : k \in (0 - 1)..(MaxCoord + 1)}
    \cup {<<k, MaxCoord - k>> : k \in (0 - 1)..(MaxCoord + 1)}

\* the ranges of the sliders of color_picker_oklch_2d
AlphaRange == <<0, One>>
HueRange == <<0 - PI, PI>>
ChromaRange == <<0, One \div 2>>
LightnessRange == <<0, One>>

Ranges1D == {AlphaRange, HueRange, ChromaRange, LightnessRange}

\* the colour color_at returns for the given argument(s); the closure is kept
\* symbolic, arguments are multiplied by N like the lerp that produced them
ColorAt(args) == [at |-> args]

-----------------------------------------------------------------------------
(* color_slider_1d *)

\* if let Some(mpos) = response.interact_pointer_pos() { *value = remap_clamp(..) }
Value1D(value, mp, r, rg) ==
    IF mp = None THEN value
    ELSE remap_clamp(mp[1], r.left, r.right, rg[1], rg[2])

\* faulty variant: the second triangle starts one vertex too far
Triangles1D_OffByOne(m, i) ==
    add_triangle(add_triangle(m, 2 * i + 0, 2 * i + 1, 2 * i + 2),
                 2 * i + 2, 2 * i + 3, 2 * i + 4)

\* the two triangles of column i
Triangles1D(m, i) ==
    add_triangle(add_triangle(m, 2 * i + 0, 2 * i + 1, 2 * i + 2),
                 2 * i + 1, 2 * i + 2, 2 * i + 3)

\* what one iteration of `for i in 0..=N` appends to the mesh and to the
\* calls of color_at
Step1D(r, rg, i) ==
    LET arg == <<Lerp(rg[1], rg[2], i, N)>>
        col == ColorAt(arg)
        x == Lerp(r.left, r.right, i, N)
        m1 == colored_vertex(EmptyMesh, <<x, N * r.top>>, col)
        m2 == colored_vertex(m1, <<x, N * r.bottom>>, col)
        m3 == IF i < N THEN Triangles1D(m2, i) ELSE m2
    IN  [mesh |-> m3, evals |-> <<arg>>]

\* the iterations lo..hi in order (split in halves to keep the evaluation shallow)
RECURSIVE Loop1D(_, _, _, _)
Loop1D(r, rg, lo, hi) ==
    IF lo > hi THEN [mesh |-> EmptyMesh, evals |-> << >>]
    ELSE IF lo = hi THEN Step1D(r, rg, lo)
    ELSE LET mid == (lo + hi) \div 2
         IN  Then(Loop1D(r, rg, lo, mid), Loop1D(r, rg, mid + 1, hi))

\* the whole call: pointer, mesh, indicator
Slider1D(r, rg, mp, v0) ==
    /\ pc = "idle"
    /\ LET v == Value1D(v0, mp, r, rg)
           st == Loop1D(r, rg, 0, N)
       IN  /\ x_value' = v
           /\ mesh' = st.mesh
           /\ evals' = Append(st.evals, <<N * v>>)
    /\ rect' = r
    /\ x_range' = rg
    /\ mpos' = mp
    /\ pc' = "done1"
    /\ UNCHANGED <<y_value, y_range, xi>>
    /\ UNCHANGED pickerVars

-----------------------------------------------------------------------------
(* color_slider_2d *)

\* faulty variant: the vertical axis is not inverted
Values2D_NotInverted(xv, yv, mp, r, xr, yr) ==
    IF mp = None THEN <<xv, yv>>
    ELSE <<remap_clamp(mp[1], r.left, r.right, xr[1], xr[2]),
           remap_clamp(mp[2], r.top, r.bottom, yr[1], yr[2])>>

\* if let Some(mpos) = response.interact_pointer_pos() { *x_value = ..; *y_value = .. }
Values2D(xv, yv, mp, r, xr, yr) ==
    IF mp = None THEN <<xv, yv>>
    ELSE <<remap_clamp(mp[1], r.left, r.right, xr[1], xr[2]),
           remap_clamp(mp[2], r.bottom, r.top, yr[1], yr[2])>>

\* faulty variant: rows are taken to be N vertices long
Triangles2D_StrideN(m, i, j) ==
    LET x_offset == 1
        y_offset == N
        tl == j * y_offset + i
    IN  add_triangle(add_triangle(m, tl, tl + x_offset, tl + y_offset),
                     tl + x_offset, tl + y_offset, tl + y_offset + x_offset)

\* the two triangles emitted at loop position (xi, yi)
Triangles2D(m, i, j) ==
    LET x_offset == 1
        y_offset == N + 1
        tl == j * y_offset + i
    IN  add_triangle(add_triangle(m, tl, tl + x_offset, tl + y_offset),
                     tl + x_offset, tl + y_offset, tl + y_offset + x_offset)

\* faulty variant: the colour is evaluated again for each triangle
Step2D_EvalPerTriangle(r, xr, yr, i, j) ==
    LET arg == <<Lerp(xr[1], xr[2], i, N), Lerp(yr[1], yr[2], j, N)>>
        col == ColorAt(arg)
        x == Lerp(r.left, r.right, i, N)
        y == Lerp(r.bottom, r.top, j, N)
        m1 == colored_vertex(EmptyMesh, <<x, y>>, col)
    IN  IF i < N /\ j < N
        THEN [mesh |-> Triangles2D(m1, i, j), evals |-> <<arg, arg, arg>>]
        ELSE [mesh |-> m1, evals |-> <<arg>>]

\* what one iteration of the inner loop `for yi in 0..=N` appends
Step2D(r, xr, yr, i, j) ==
    LET arg == <<Lerp(xr[1], xr[2], i, N), Lerp(yr[1], yr[2], j, N)>>
        col == ColorAt(arg)
        x == Lerp(r.left, r.right, i, N)
        y == Lerp(r.bottom, r.top, j, N)
        m1 == colored_vertex(EmptyMesh, <<x, y>>, col)
        m2 == IF i < N /\ j < N THEN Triangles2D(m1, i, j) ELSE m1
    IN  [mesh |-> m2, evals |-> <<arg>>]

\* the inner iterations lo..hi of outer iteration i, in order
RECURSIVE Inner2D(_, _, _, _, _, _)
Inner2D(r, xr, yr, i, lo, hi) ==
    IF lo > hi THEN [mesh |-> EmptyMesh, evals |-> << >>]
    ELSE IF lo = hi THEN Step2D(r, xr, yr, i, lo)
    ELSE LET mid == (lo + hi) \div 2
         IN  Then(Inner2D(r, xr, yr, i, lo, mid), Inner2D(r, xr, yr, i, mid + 1, hi))

\* entry of the call up to `let mut mesh = Mesh::default()`; x_value and
\* y_value are the caller's chroma and lightness (lines 283-284)
S2Begin(r, mp) ==
    /\ pc = "idle"
    /\ rect' = r
    /\ mpos' = mp
    /\ x_range' = ChromaRange
    /\ y_range' = LightnessRange
    /\ LET v == Values2D(x_value, y_value, mp, r, ChromaRange, LightnessRange)
       IN  x_value' = v[1] /\ y_value' = v[2]
    /\ mesh' = EmptyMesh
    /\ evals' = << >>
    /\ xi' = 0
    /\ pc' = "loop"
    /\ UNCHANGED pickerVars

\* one iteration of the outer loop `for xi in 0..=N`
S2Column ==
    /\ pc = "loop"
    /\ xi <= N
    /\ LET st == Then([mesh |-> mesh, evals |-> evals],
                      Inner2D(rect, x_range, y_range, xi, 0, N))
       IN  mesh' = st.mesh /\ evals' = st.evals
    /\ xi' = xi + 1
    /\ UNCHANGED <<pc, rect, mpos, x_value, y_value, x_range, y_range>>
    /\ UNCHANGED pickerVars

\* after the loops: the mesh is painted and the indicator drawn with
\* color_at(*x_value, *y_value)
S2Finish ==
    /\ pc = "loop"
    /\ xi > N
    /\ evals' = Append(evals, <<N * x_value, N * y_value>>)
    /\ pc' = "done2"
    /\ UNCHANGED <<rect, mpos, x_value, y_value, x_range, y_range, xi, mesh>>
    /\ UNCHANGED pickerVars

\* color_slider_2d returns its response; the values stay with the caller, the
\* locals and the mesh, which has gone to the painter, are dropped
S2Return ==
    /\ pc = "done2"
    /\ pc' = "idle"
    /\ rect' = [left |-> 0, right |-> 0, top |-> 0, bottom |-> 0]
    /\ mpos' = None
    /\ x_range' = <<0, 0>>
    /\ y_range' = <<0, 0>>
    /\ xi' = 0
    /\ mesh' = EmptyMesh
    /\ evals' = << >>
    /\ UNCHANGED <<x_value, y_value>>
    /\ UNCHANGED pickerVars

\* color_slider_1d returns its response; the next call is given another value
S1Return ==
    /\ pc = "done1"
    /\ pc' = "idle"
    /\ rect' = [left |-> 0, right |-> 0, top |-> 0, bottom |-> 0]
    /\ mpos' = None
    /\ x_value' = 0
    /\ y_value' = 0
    /\ x_range' = <<0, 0>>
    /\ y_range' = <<0, 0>>
    /\ xi' = 0
    /\ mesh' = EmptyMesh
    /\ evals' = << >>
    /\ UNCHANGED pickerVars

-----------------------------------------------------------------------------
(* Colours *)
(* The conversions between PerceptualLCh and Asset are colstodian's; they   *)
(* are replaced by a small cylindrical colour space that keeps what the     *)
(* picker depends on: the display colour is 4 bytes, RGB is premultiplied   *)
(* by alpha, out of gamut channels are clamped, chroma 0 gives R = G = B    *)
(* whatever the hue, and the hue read back from an achromatic colour is 0.  *)

Min(a, b) == IF a < b THEN a ELSE b
Max(a, b) == IF a < b THEN b ELSE a
Clamp(v, lo, hi) == Max(lo, Min(hi, v))

\* u8 -> f32 in 0..=1 (Q8, to nearest) and back
FromU8(b) == (b * One + 127) \div 255
ToU8(v) == (Clamp(v, 0, One) * 255 + One \div 2) \div One

\* channel that carries the hue: 1 red, 2 green, 3 blue; -PI and PI are the
\* same angle
HueChannel(h) ==
    IF 3 * h >= 0 - PI /\ 3 * h < PI THEN 1
    ELSE IF 3 * h >= PI /\ h < PI THEN 2
    ELSE 3

\* hue read back for a channel
ChannelHue(k) == IF k = 1 THEN 0 ELSE IF k = 2 THEN (2 * PI) \div 3 ELSE 0 - ((2 * PI) \div 3)

\* oklch.convert::<EncodedSrgb, Premultiplied>().to_u8()
ToAsset(p) ==
    LET k == HueChannel(p.h)
        enc == [i \in 1..3 |-> Clamp(IF i = k THEN p.l + p.c ELSE p.l - p.c, 0, One)]
        a == Clamp(p.alpha, 0, One)
    IN  <<ToU8((enc[1] * a) \div One), ToU8((enc[2] * a) \div One),
          ToU8((enc[3] * a) \div One), ToU8(a)>>

\* Asset::from_u8(bytes).convert::<Oklch, Separate>()
FromAsset(d) ==
    LET a == FromU8(d[4])
        enc == [i \in 1..3 |-> IF d[4] = 0 THEN 0 ELSE (FromU8(d[i]) * One) \div a]
        hi == Max(enc[1], Max(enc[2], enc[3]))
        lo == Min(enc[1], Min(enc[2], enc[3]))
        k == IF enc[1] = hi THEN 1 ELSE IF enc[2] = hi THEN 2 ELSE 3
    IN  [l |-> (hi + lo) \div 2,
         c |-> (hi - lo) \div 2,
         h |-> IF hi = lo THEN 0 ELSE ChannelHue(k),
         alpha |-> a]

Achromatic(d) == d[1] = d[2] /\ d[2] = d[3]

-----------------------------------------------------------------------------
(* Cache<[u8; 4], PerceptualLCh>: a set of entries, at most one per key *)

CacheHas(c, key) == \E e \in c : e.key = key

\* cache.get(&key)
CacheGet(c, key) ==
    IF CacheHas(c, key) THEN <<(CHOOSE e \in c : e.key = key).value>> ELSE None

NoVictim == [key |-> None, value |-> Unset]

\* entries that may have to make room when `key` is set: none while the
\* capacity suffices, else any entry of another key
Victims(c, key) ==
    LET others == {e \in c : e.key # key}
    IN  IF Cardinality(others) < CacheCapacity THEN {NoVictim} ELSE others

\* cache.set(key, value), evicting `victim`
CacheSet(c, key, value, victim) ==
    ({e \in c : e.key # key} \ {victim}) \cup {[key |-> key, value |-> value]}

-----------------------------------------------------------------------------
(* The popup of ui.memory() *)

\* memory.toggle_popup(popup_id)
toggle_popup(open) == ~open

\* `if button_response.clicked() { ui.memory().toggle_popup(popup_id); }`
AfterButton(open, clicked) == IF clicked THEN toggle_popup(open) ELSE open

\* faulty variant: Escape and clicks elsewhere close the popup in the pass of
\* the button click too
AfterClose_IgnoreClick(clicked, escape, elsewhere) ==
    IF escape \/ elsewhere THEN FALSE ELSE TRUE

\* `if !button_response.clicked() && (key_pressed(Escape) || clicked_elsewhere())
\*  { ui.memory().close_popup(); }`, reached with the popup open
AfterClose(clicked, escape, elsewhere) ==
    IF ~clicked /\ (escape \/ elsewhere) THEN FALSE ELSE TRUE

-----------------------------------------------------------------------------
(* color_picker_oklch_2d *)

\* the rectangle a slider of the popup is given
PopupRect == [left |-> 0, right |-> SliderWidth, top |-> 0, bottom |-> SliderWidth]

\* the pointer is tried at the two ends of a slider
PopupCoords == {PopupRect.left, PopupRect.right}

Sliders1D == {"alpha", "hue", "chroma", "lightness"}

\* what the pointer does in a pass: nothing, or it is held on one slider
NoPointer == [slider |-> "none", pos |-> None]

PointerInputs ==
    {NoPointer}
    \cup {[slider |-> s, pos |-> <<x, 0>>] : s \in Sliders1D, x \in PopupCoords}
    \cup {[slider |-> "2d", pos |-> <<x, y>>] : x \in PopupCoords, y \in PopupCoords}

\* interact_pointer_pos() of slider s
PointerOn(ptr, s) == IF ptr.slider = s THEN ptr.pos ELSE None

\* the five sliders in the order of the grid; returns the colour edited
SlidersOf(col, ptr) ==
    LET c1 == [col EXCEPT !.alpha = Value1D(@, PointerOn(ptr, "alpha"), PopupRect, AlphaRange)]
        c2 == [c1 EXCEPT !.h = Value1D(@, PointerOn(ptr, "hue"), PopupRect, HueRange)]
        c3 == [c2 EXCEPT !.c = Value1D(@, PointerOn(ptr, "chroma"), PopupRect, ChromaRange)]
        c4 == [c3 EXCEPT !.l = Value1D(@, PointerOn(ptr, "lightness"), PopupRect, LightnessRange)]
        v == Values2D(c4.c, c4.l, PointerOn(ptr, "2d"), PopupRect, ChromaRange, LightnessRange)
    IN  [c4 EXCEPT !.c = v[1], !.l = v[2]]

\* faulty variant: the display colours are compared
PickerChanged_Display(col, orig_col) == ToAsset(col) # ToAsset(orig_col)

\* `if *color == orig_col { false } else { true }`
PickerChanged(col, orig_col) == col # orig_col

-----------------------------------------------------------------------------
(* color_edit_button_oklch: [color, open, changed] on return *)

\* faulty variant: the picker is shown by the state of the popup on entry
color_edit_button_oklch_StaleOpen(col, open, in) ==
    LET open1 == AfterButton(open, in.clicked)
    IN  IF open
        THEN LET col1 == SlidersOf(col, in.ptr)
             IN  [color |-> col1,
                  open |-> open1 /\ AfterClose(in.clicked, in.escape, in.elsewhere),
                  changed |-> PickerChanged(col1, col)]
        ELSE [color |-> col, open |-> open1, changed |-> FALSE]

color_edit_button_oklch(col, open, in) ==
    LET open1 == AfterButton(open, in.clicked)
    IN  IF open1
        THEN LET col1 == SlidersOf(col, in.ptr)
             IN  [color |-> col1,
                  open |-> AfterClose(in.clicked, in.escape, in.elsewhere),
                  changed |-> PickerChanged(col1, col)]
        ELSE [color |-> col, open |-> open1, changed |-> FALSE]

-----------------------------------------------------------------------------
(* color_edit_button / color_edit_button_inner *)

\* faulty variant: the cache is not consulted
SeedOf_NoCache(c, d) == FromAsset(d)

\* .get(&color.to_u8()).cloned().unwrap_or_else(|| color.convert())
SeedOf(c, d) ==
    LET got == CacheGet(c, d) IN IF got = None THEN FromAsset(d) ELSE got[1]

\* `*color = oklch.convert()`, as the 4 bytes handed back to the caller
NewDisplay(col) == ToAsset(col)

\* faulty variant: the working colour is stored under the key of the lookup
Commit_OldKey(c, d, dnew, col, victim) == CacheSet(c, d, col, victim)

\* `.get_mut_or_default::<Cache<..>>().set(color.to_u8(), oklch)`; d is the
\* display colour the pass was called with, dnew the one it returns
Commit(c, d, dnew, col, victim) == CacheSet(c, dnew, col, victim)

\* the pass "sets chroma to 0": the chroma of the working colour was positive
\* on entry and is 0 on return
SetsChromaToZero(s, col) == s.c > 0 /\ col.c = 0

\* the events of a pass; a pointer held on a slider lies inside the popup
\* area, so no click outside the area is reported with it
Inputs ==
    {in \in [clicked : BOOLEAN, escape : BOOLEAN, elsewhere : BOOLEAN,
             ptr : PointerInputs] : in.ptr = NoPointer \/ ~in.elsewhere}

\* one pass of color_edit_button
Pass(in) ==
    /\ passes < MaxPasses
    /\ LET s == SeedOf(cache, color)
           r == color_edit_button_oklch(s, popup, in)
           key == NewDisplay(r.color)
       IN  /\ seed' = s
           /\ oklch' = r.color
           /\ popup' = r.open
           /\ changed' = r.changed
           /\ color' = key
           /\ \E victim \in Victims(cache, key) :
                  cache' = Commit(cache, color, key, r.color, victim)
           /\ input' = [clicked |-> in.clicked, escape |-> in.escape,
                        elsewhere |-> in.elsewhere, ptr |-> in.ptr,
                        wasOpen |-> popup, color |-> color]
           /\ IF SetsChromaToZero(s, r.color)
              THEN zeroKey' = key /\ zeroHue' = r.color.h
              ELSE UNCHANGED <<zeroKey, zeroHue>>
    /\ passes' = passes + 1
    /\ UNCHANGED sliderVars

\* opaque red, opaque blue, and blue with alpha 0
StartColor == <<255, 0, 0, 255>>
HostColors == {StartColor, <<0, 0, 255, 255>>, <<0, 0, 255, 0>>}

\* between two passes the caller stores another colour in its variable
Reassign(d) ==
    /\ passes < MaxPasses
    /\ d # color
    /\ color' = d
    /\ UNCHANGED <<cache, popup, oklch, seed, changed, input, passes, zeroKey, zeroHue>>
    /\ UNCHANGED sliderVars

-----------------------------------------------------------------------------
(* Specifications *)

InitSlider ==
    /\ pc = "idle"
    /\ rect = [left |-> 0, right |-> 0, top |-> 0, bottom |-> 0]
    /\ mpos = None
    /\ x_value = 0
    /\ y_value = 0
    /\ x_range = <<0, 0>>
    /\ y_range = <<0, 0>>
    /\ xi = 0
    /\ mesh = EmptyMesh
    /\ evals = << >>

InitPicker ==
    /\ color = StartColor
    /\ cache = {}
    /\ popup = FALSE
    /\ oklch = Unset
    /\ seed = Unset
    /\ changed = FALSE
    /\ input = [clicked |-> FALSE, escape |-> FALSE, elsewhere |-> FALSE,
                ptr |-> NoPointer, wasOpen |-> FALSE, color |-> StartColor]
    /\ passes = 0
    /\ zeroKey = None
    /\ zeroHue = 0

Init == InitSlider /\ InitPicker

Next ==
    \/ \E in \in Inputs : Pass(in)
    \/ \E d \in HostColors : Reassign(d)

Spec == Init /\ [][Next]_vars

Next1D ==
    \/ S1Return
    \/ \E r \in PositiveRects, rg \in Ranges1D, mp \in Pointers \cup {None}, v0 \in 1..2 :
        Slider1D(r, rg, mp, rg[v0])

Spec1D == Init /\ [][Next1D]_vars

Next2D ==
    \/ \E r \in PositiveRects, mp \in Pointers \cup {None} : S2Begin(r, mp)
    \/ S2Column
    \/ S2Finish
    \/ S2Return

Spec2D == Init /\ [][Next2D]_vars

-----------------------------------------------------------------------------
(* Properties of the slider meshes *)

Verts == (N + 1) * (N + 1)

IndicesInRange(m) ==
    \A k \in 1..Len(m.indices) : m.indices[k] >= 0 /\ m.indices[k] < Len(m.vertices)

\* C5: with N = 36 the mesh of color_slider_1d, for a rectangle of positive
\* width and height, has N + 1 sample pairs (2(N + 1) vertices, each pair a top
\* and a bottom vertex of one x and one colour) and 2N triangles, every index
\* names a vertex of the mesh, no triangle has zero area, and the first and
\* the last sample are taken at t = 0 and t = 1: at the left and right edge
\* with the colour of the start and the end of the range.
C5_Mesh1D ==
    pc = "done1" =>
        /\ N = 36
        /\ Len(mesh.vertices) = 2 * (N + 1)
        /\ NumTriangles(mesh) = 2 * N
        /\ Len(mesh.indices) = 3 * 2 * N
        /\ IndicesInRange(mesh)
        /\ \A i \in 0..N :
               LET a == mesh.vertices[2 * i + 1]
                   b == mesh.vertices[2 * i + 2]
               IN  /\ a.pos[1] = b.pos[1]
                   /\ a.pos[2] = N * rect.top
                   /\ b.pos[2] = N * rect.bottom
                   /\ a.color = b.color
        /\ \A k \in 1..NumTriangles(mesh) : TriArea2(mesh, k) # 0
        /\ mesh.vertices[1].pos[1] = N * rect.left
        /\ mesh.vertices[1].color = ColorAt(<<N * x_range[1]>>)
        /\ mesh.vertices[2 * N + 1].pos[1] = N * rect.right
        /\ mesh.vertices[2 * N + 1].color = ColorAt(<<N * x_range[2]>>)

C5_Witness ==
    /\ pc = "done1"
    /\ x_range = HueRange
    /\ rect.right - rect.left = 1
    /\ NumTriangles(mesh) = 2 * N

\* arguments of color_at at the grid vertex appended k-th (1-based)
GridArg(k) ==
    <<Lerp(x_range[1], x_range[2], (k - 1) \div (N + 1), N),
      Lerp(y_range[1], y_range[2], (k - 1) % (N + 1), N)>>

\* C6 as stated: one call of color_slider_2d gives (N+1)^2 vertices and 2N^2
\* triangles and evaluates the colour function (N+1)^2 times in total.
C6_EvalsTotal ==
    pc = "done2" =>
        /\ Len(mesh.vertices) = Verts
        /\ NumTriangles(mesh) = 2 * N * N
        /\ Len(evals) = Verts

\* C6 amended: one call of color_slider_2d gives (N+1)^2 vertices and 2N^2
\* triangles; building the mesh evaluates the colour function once per grid
\* vertex, and the call evaluates it once more, at the current values, for the
\* indicator: (N+1)^2 + 1 evaluations in total.
C6_EvalsPerVertexPlusIndicator ==
    pc = "done2" =>
        /\ Len(mesh.vertices) = Verts
        /\ NumTriangles(mesh) = 2 * N * N
        /\ Len(evals) = Verts + 1
        /\ \A k \in 1..Verts :
               evals[k] = GridArg(k) /\ mesh.vertices[k].color = ColorAt(evals[k])
        /\ evals[Verts + 1] = <<N * x_value, N * y_value>>

C6_Witness ==
    /\ pc = "done2"
    /\ mpos # None
    /\ Len(evals) = Verts + 1
    /\ Len(mesh.vertices) = Verts

\* C7: in the mesh of color_slider_2d the two triangles emitted for a grid cell
\* have the same orientation, for every cell.
C7_ConsistentWinding ==
    pc = "done2" =>
        \A q \in 1..(N * N) : TriArea2(mesh, 2 * q - 1) * TriArea2(mesh, 2 * q) > 0

\* grid coordinates of the vertex with index v, read off its position
GridOf(m, v) ==
    <<(PosOf(m, v)[1] - N * rect.left) \div (rect.right - rect.left),
      (N * rect.bottom - PosOf(m, v)[2]) \div (rect.bottom - rect.top)>>

\* the grid coordinates of the corners of triangle k
Corners(m, k) == {GridOf(m, Tri(m, k)[n]) : n \in 1..3}

CellCorners(c) == {<<c[1] + dx, c[2] + dy>> : dx \in 0..1, dy \in 0..1}

\* the cell whose lower corner is the least corner of triangle k
CellOf(m, k) ==
    LET cs == Corners(m, k)
    IN  <<CHOOSE a \in {c[1] : c \in cs} : \A c \in cs : a <= c[1],
          CHOOSE b \in {c[2] : c \in cs} : \A c \in cs : b <= c[2]>>

\* two triangles on corners of one cell cover it, without overlap, iff they
\* have three corners each and share a diagonal of the cell
CoverCell(m, k1, k2) ==
    LET c1 == Corners(m, k1)
        c2 == Corners(m, k2)
        cell == CellCorners(CellOf(m, k1))
        shared == c1 \cap c2
    IN  /\ Cardinality(c1) = 3 /\ Cardinality(c2) = 3
        /\ c1 \subseteq cell /\ c2 \subseteq cell
        /\ c1 \cup c2 = cell
        /\ \A p \in shared, q \in shared : p # q => (p[1] # q[1] /\ p[2] # q[2])

\* C10: in the mesh of color_slider_2d (vertices appended with xi outer and yi
\* inner, indices computed from tl = yi * (N + 1) + xi) every index is below
\* (N+1)^2, the three indices of every triangle name three corners of one grid
\* cell, and every one of the N^2 cells receives exactly the two triangles that
\* cover it: the two triangles emitted together lie on one cell and cover it,
\* and no two pairs lie on the same cell.
C10_CellsCovered ==
    pc = "done2" =>
        /\ Len(mesh.vertices) = Verts
        /\ NumTriangles(mesh) = 2 * N * N
        /\ \A k \in 1..Len(mesh.indices) : mesh.indices[k] >= 0 /\ mesh.indices[k] < Verts
        /\ \A q \in 1..(N * N) : CoverCell(mesh, 2 * q - 1, 2 * q)
        /\ {CellOf(mesh, 2 * q) : q \in 1..(N * N)} = (0..(N - 1)) \X (0..(N - 1))

C10_Witness ==
    /\ pc = "done2"
    /\ rect.right - rect.left # rect.bottom - rect.top
    /\ NumTriangles(mesh) = 2 * N * N
    /\ mesh.indices[Len(mesh.indices)] = Verts - 1

\* C8: when color_slider_2d is given a pointer position, the horizontal
\* coordinate sets the first value and the vertical coordinate the second, by
\* linear interpolation with the vertical axis inverted (top edge: maximum of
\* the second range, bottom edge: minimum); inside or outside the rectangle,
\* both values lie in their ranges; without a pointer position both values
\* are left unchanged.
C8_PointerMapping ==
    [][(pc = "idle" /\ pc' = "loop") =>
          IF mpos' = None
          THEN x_value' = x_value /\ y_value' = y_value
          ELSE LET px == mpos'[1]
                   py == mpos'[2]
                   r == rect'
                   w == r.right - r.left
                   h == r.bottom - r.top
               IN  /\ x_range'[1] <= x_value' /\ x_value' <= x_range'[2]
                   /\ y_range'[1] <= y_value' /\ y_value' <= y_range'[2]
                   /\ py <= r.top => y_value' = y_range'[2]
                   /\ py >= r.bottom => y_value' = y_range'[1]
                   /\ px <= r.left => x_value' = x_range'[1]
                   /\ px >= r.right => x_value' = x_range'[2]
                   /\ (r.left < px /\ px < r.right) =>
                          x_value' = ((r.right - px) * x_range'[1]
                                      + (px - r.left) * x_range'[2]) \div w
                   /\ (r.top < py /\ py < r.bottom) =>
                          y_value' = ((py - r.top) * y_range'[1]
                                      + (r.bottom - py) * y_range'[2]) \div h
      ]_vars

C8_Witness ==
    /\ pc = "loop"
    /\ mpos # None
    /\ mpos[2] = rect.top
    /\ mpos[1] < rect.left
    /\ y_value = y_range[2]
    /\ x_value = x_range[1]

-----------------------------------------------------------------------------
(* Properties of the picker *)

\* C1: over the passes of one picker, a Closed popup is Open after a pass iff
\* the button was clicked in it (whatever Escape and clicks elsewhere it
\* reports), an Open popup is Closed after a pass iff the button was clicked,
\* Escape was pressed or a click fell outside the popup; otherwise the state
\* stays.
C1_PopupTransitions ==
    [][passes' # passes =>
          /\ ~popup => (popup' <=> input'.clicked)
          /\ popup => (~popup' <=> (input'.clicked \/ input'.escape \/ input'.elsewhere))
      ]_vars

C1_Witness ==
    /\ passes > 0
    /\ ~input.wasOpen
    /\ input.clicked /\ input.escape /\ input.elsewhere
    /\ popup

\* C2 as stated: after a pass the response is marked changed iff the 4 bytes
\* returned differ from the 4 bytes passed in.
C2_ChangedIffBytesDiffer ==
    [][passes' # passes => (changed' <=> color' # color)]_vars

\* C2 amended: after a pass the display colour is the conversion of the final
\* working colour, and the response is marked changed iff the final working
\* colour differs, in lightness, chroma, hue or alpha, from the working colour
\* the pass was seeded with.
C2_ChangedIffWorkingColourDiffers ==
    [][passes' # passes =>
          /\ color' = ToAsset(oklch')
          /\ changed' <=> (oklch'.l # seed'.l \/ oklch'.c # seed'.c
                           \/ oklch'.h # seed'.h \/ oklch'.alpha # seed'.alpha)
      ]_vars

C2_Witness ==
    /\ passes > 0
    /\ changed
    /\ ToAsset(oklch) = input.color
    /\ oklch.h # seed.h

C4_SeedAndCommit ==
    [][passes' # passes =>
          /\ \A e \in cache : e.key = color => seed' = e.value
          /\ (\A e \in cache : e.key # color) => seed' = FromAsset(color)
          /\ [key |-> color', value |-> oklch'] \in cache'
          /\ \A e1 \in cache', e2 \in cache' : e1.key = e2.key => e1 = e2
      ]_vars

C4_Witness ==
    /\ passes > 1
    /\ seed # FromAsset(input.color)
    /\ [key |-> ToAsset(oklch), value |-> oklch] \in cache

\* C9: in a pass in which the popup is Closed once the click of the button
\* has been processed (it was Closed and not clicked, or Open and clicked), no
\* slider is evaluated: the working colour on return is the one the pass was
\* seeded with and the response is not marked changed.
C9_ClosedPassEditsNothing ==
    (passes > 0 /\ (input.wasOpen <=> input.clicked)) => (oklch = seed /\ ~changed)

C9_Witness ==
    /\ passes > 0
    /\ input.wasOpen /\ input.clicked
    /\ SlidersOf(seed, input.ptr) # seed
    /\ oklch = seed
    /\ ~popup

=============================================================================
